---- MODULE Spec2Model ----
(***************************************************************************)
(* Model of nicegui/element.py: the server-side element tree, its          *)
(* attribute mutators and the "push the whole subtree" update.             *)
(*                                                                         *)
(* Python objects live in heaps: elems (Element objects, in creation       *)
(* order) and slot_heap (Slot objects).  A reference is a heap index.      *)
(* A dict is a function whose DOMAIN is its key set; a dict whose          *)
(* insertion order is observed (Element.slots) is a sequence of entries.   *)
(* An Optional[str] argument is None (<<>>) or Some(text) (<<text>>).      *)
(* A class text is given by the list of its whitespace separated words, a  *)
(* style text by the list of its ';' separated parts, each part being the  *)
(* list of its ':' separated, stripped words, and a props text by the list *)
(* of its shlex words, each word split once at '='.                        *)
(***************************************************************************)
EXTENDS Integers, Sequences, FiniteSets, TLC

VARIABLES
    client_stack,     \* globals.client_stack: sequence of clients
    loop,             \* globals.loop is set (an event loop/channel is active)
    next_element_id,  \* client.next_element_id, per client
    elements,         \* client.elements, per client: id -> Element reference
    slot_stack,       \* client.slot_stack, per client: sequence of Slot references
    elems,            \* heap of Element objects
    slot_heap,        \* heap of Slot objects
    with_stack,       \* open `with element:` blocks, innermost last, each with the
                      \* slot stack its __enter__ found
    tasks,            \* emits handed to create_task and not yet run, oldest first
    last              \* the call that made the last step, with the state it started from

vars == <<client_stack, loop, next_element_id, elements, slot_stack, elems,
          slot_heap, with_stack, tasks, last>>

----------------------------------------------------------------------------
(* Bounds *)

NumClients == 2
MaxElements == 3
MaxSlots == 3
MaxDepth == 2
MaxTasks == 2
MaxClientDepth == 2
MaxAddWords == 2
MaxRemoveWords == 1
MaxAddParts == 1
MaxRemoveParts == 2
MaxReplaceParts == 1
MaxPropWords == 2
MaxListeners == 3

Clients == 1..NumClients
Tags == {"div"}
SlotNames == {"default", "extra"}

\* class tokens; on_visibility_change reserves 'hidden'
Tokens == {"a", "b", "c"}
RemoveTokens == {"a", "hidden"}

StyleKeys == {"color", "width"}
StyleValues == {"red", "blue"}

PropKeys == {"dense", "label"}
PropStrings == {"hi there"}

\* the value of a bare prop word: the boolean True, which equals no string
BoolTrue == "<True>"

\* event types, the argument lists and the handlers given to on()
EventTypes == {"click", "change"}
EventArgs == {<<>>, <<"x">>, <<"y", "z">>}
Handlers == {"h1", "h2"}

----------------------------------------------------------------------------
(* Python helpers *)

None == <<>>
Some(text) == <<text>>

IsNone(arg) == arg = None

Text(arg) == arg[1]

Range(s) == {s[i] : i \in 1..Len(s)}

Last(s) == s[Len(s)]

Front(s) == SubSeq(s, 1, Len(s) - 1)

SeqsUpTo(S, n) == UNION {[1..k -> S] : k \in 0..n}

EmptyDict == <<>>

\* dict.update / d[k] = v for every k of other
DictUpdate(d, other) ==
    [k \in (DOMAIN d) \cup (DOMAIN other) |-> IF k \in DOMAIN other THEN other[k] ELSE d[k]]

\* del d[k] for every k of keys (all present)
DictDel(d, keys) == [k \in (DOMAIN d) \ keys |-> d[k]]

\* [x for x in s if keep(x)]
RECURSIVE Filter(_, _)
Filter(s, drop) ==
    IF s = <<>> THEN <<>>
    ELSE IF Head(s) \in drop THEN Filter(Tail(s), drop)
         ELSE <<Head(s)>> \o Filter(Tail(s), drop)

\* a list(s) that keeps every occurrence
FromKeys_all(s) == s

\* list(dict.fromkeys(s)): first occurrences, in order
RECURSIVE FromKeys(_)
FromKeys(s) ==
    IF s = <<>> THEN <<>>
    ELSE LET rest == FromKeys(Front(s))
         IN IF Last(s) \in Range(rest) THEN rest ELSE Append(rest, Last(s))

\* list.remove(x): drops the first occurrence
RECURSIVE ListRemove(_, _)
ListRemove(s, x) ==
    IF s = <<>> THEN <<>>
    ELSE IF Head(s) = x THEN Tail(s)
         ELSE <<Head(s)>> \o ListRemove(Tail(s), x)

----------------------------------------------------------------------------
(* Slot and Element objects *)

Slot(parent, name) == [parent |-> parent, name |-> name, children |-> <<>>]

\* position of name in the slots dict, 0 when it is not a key
SlotIndex(slots, name) ==
    IF \E i \in 1..Len(slots) : slots[i].name = name
    THEN CHOOSE i \in 1..Len(slots) : slots[i].name = name
    ELSE 0

\* slots[name] = slot: a new key goes last, an existing key keeps its place
SlotsSet(slots, name, slot) ==
    IF SlotIndex(slots, name) = 0
    THEN Append(slots, [name |-> name, slot |-> slot])
    ELSE [slots EXCEPT ![SlotIndex(slots, name)] = [name |-> name, slot |-> slot]]

NoCall == [op |-> "none", elem |-> 0, add |-> None, remove |-> None, replace |-> None,
           visible |-> TRUE, type |-> "", handler |-> None, args |-> <<>>,
           msg |-> <<>>, invoked |-> <<>>, pre |-> <<>>, pre_stack |-> <<>>,
           saved |-> <<>>, raised |-> "", sent |-> 0]

Call(op, e) == [NoCall EXCEPT !.op = op, !.elem = e]

\* no call is being looked at: the next one may start
Idle(l) == l.op = "none"

----------------------------------------------------------------------------
(* Serialization and update *)

\* [child.id for child in slot.children]
ChildIds(els, children) == [i \in 1..Len(children) |-> els[children[i]].id]

\* an aggregation that keeps the arguments of the latest listener only
RECURSIVE events_latest(_)
events_latest(listeners) ==
    IF listeners = <<>> THEN EmptyDict
    ELSE DictUpdate(events_latest(Front(listeners)),
                    (Last(listeners).type :> Last(listeners).args))

\* events of to_dict():
\* events[listener.type] = events.get(listener.type, []) + listener.args
RECURSIVE events(_)
events(listeners) ==
    IF listeners = <<>> THEN EmptyDict
    ELSE LET before == events(Front(listeners))
             listener == Last(listeners)
             got == IF listener.type \in DOMAIN before THEN before[listener.type] ELSE <<>>
         IN DictUpdate(before, (listener.type :> got \o listener.args))

to_dict(els, e) ==
    [id |-> els[e].id,
     tag |-> els[e].tag,
     class |-> els[e]._classes,
     style |-> els[e]._style,
     props |-> els[e]._props,
     events |-> events(els[e]._event_listeners),
     text |-> els[e]._text,
     slots |-> [n \in {els[e].slots[i].name : i \in 1..Len(els[e].slots)} |->
                  ChildIds(els, slot_heap[els[e].slots[SlotIndex(els[e].slots, n)].slot].children)]]

\* the children of all slots of an element, slot after slot
RECURSIVE SlotsChildren(_, _)
SlotsChildren(slots, i) ==
    IF i > Len(slots) THEN <<>>
    ELSE slot_heap[slots[i].slot].children \o SlotsChildren(slots, i + 1)

\* a collect_ids that does not descend into the slots
collect_ids_shallow(els, c, id) == <<id>>

\* collect_ids(id) of update(), called on an element of client c
RECURSIVE collect_ids(_, _, _)
RECURSIVE collect_children(_, _, _)
collect_ids(els, c, id) ==
    collect_children(els, c, SlotsChildren(els[elements[c][id]].slots, 1)) \o <<id>>

collect_children(els, c, children) ==
    IF children = <<>> THEN <<>>
    ELSE collect_ids(els, c, els[Head(children)].id) \o collect_children(els, c, Tail(children))

\* the message update() emits for element e
Message(els, e) ==
    LET c == els[e].client
        ids == collect_ids(els, c, els[e].id)
    IN [event |-> "update",
        room |-> c,
        elements |-> [id \in Range(ids) |-> to_dict(els, elements[c][id])],
        class_live |-> [id \in Range(ids) |-> TRUE],
        style_live |-> [id \in Range(ids) |-> TRUE]]

\* an update() that does not look at globals.loop
update_unguarded(els, tsk, e) == Append(tsk, Message(els, e))

\* the task list after self.update(): nothing is scheduled without a loop
update(els, tsk, e) ==
    IF ~loop THEN tsk ELSE Append(tsk, Message(els, e))

\* The dicts of a scheduled message hold the element's own objects: 'props'
\* is always self._props, 'class' and 'style' are self._classes and
\* self._style for as long as the attribute is not rebound (class_live,
\* style_live).  Sync shows what a mutation in place of element e does to the
\* messages not yet run.
Sync(tsk, els, e) ==
    [i \in 1..Len(tsk) |->
        IF tsk[i].room = els[e].client /\ els[e].id \in DOMAIN tsk[i].elements
        THEN [tsk[i] EXCEPT
                !.elements[els[e].id].class =
                    IF tsk[i].class_live[els[e].id] THEN els[e]._classes ELSE @,
                !.elements[els[e].id].style =
                    IF tsk[i].style_live[els[e].id] THEN els[e]._style ELSE @,
                !.elements[els[e].id].props = els[e]._props]
        ELSE tsk[i]]

\* self._classes = new_classes: the messages keep the old list
RebindClasses(tsk, els, e) ==
    [i \in 1..Len(tsk) |->
        IF tsk[i].room = els[e].client /\ els[e].id \in DOMAIN tsk[i].elements
        THEN [tsk[i] EXCEPT !.class_live[els[e].id] = FALSE]
        ELSE tsk[i]]

\* self._style = style_dict: the messages keep the old dict
RebindStyle(tsk, els, e) ==
    [i \in 1..Len(tsk) |->
        IF tsk[i].room = els[e].client /\ els[e].id \in DOMAIN tsk[i].elements
        THEN [tsk[i] EXCEPT !.style_live[els[e].id] = FALSE]
        ELSE tsk[i]]

----------------------------------------------------------------------------
(* on_visibility_change *)

\* the class list after on_visibility_change(visible)
visibility_classes(_classes, visible) ==
    IF visible /\ "hidden" \in Range(_classes) THEN ListRemove(_classes, "hidden")
    ELSE IF ~visible /\ "hidden" \notin Range(_classes) THEN Append(_classes, "hidden")
    ELSE _classes

\* an on_visibility_change that always calls self.update()
visibility_always_update(_classes, visible) == TRUE

\* whether on_visibility_change(visible) calls self.update()
visibility_needs_update(_classes, visible) ==
    \/ visible /\ "hidden" \in Range(_classes)
    \/ ~visible /\ "hidden" \notin Range(_classes)

----------------------------------------------------------------------------
(* classes *)

\* (text or '').split()
split(arg) == IF IsNone(arg) THEN <<>> ELSE Text(arg)

\* new_classes of a classes() that keeps the current list under replace
new_classes_kept(_classes, add, remove, replace) ==
    FromKeys(Filter(_classes, Range(split(remove))) \o split(add) \o split(replace))

\* new_classes of classes(add, remove=, replace=)
new_classes(_classes, add, remove, replace) ==
    LET class_list0 == IF IsNone(replace) THEN _classes ELSE <<>>
        class_list1 == Filter(class_list0, Range(split(remove)))
        class_list2 == class_list1 \o split(add)
        class_list3 == class_list2 \o split(replace)
    IN FromKeys(class_list3)

\* a classes() that updates whatever the outcome
classes_always_update(_classes, new) == TRUE

\* if self._classes != new_classes
classes_needs_update(_classes, new) == _classes # new

----------------------------------------------------------------------------
(* style *)

\* dict(pairs): a later pair overwrites an earlier one
RECURSIVE DictOf(_)
DictOf(pairs) ==
    IF pairs = <<>> THEN EmptyDict
    ELSE DictUpdate(DictOf(Front(pairs)), (Last(pairs)[1] :> Last(pairs)[2]))

\* the keys of dict(pairs) in iteration order
KeysOf(pairs) == FromKeys([i \in 1..Len(pairs) |-> pairs[i][1]])

\* parse_style(text): dict() refuses a part that is not a key and a value
parse_style(arg) ==
    IF IsNone(arg) \/ Text(arg) = <<>> THEN [ok |-> TRUE, dict |-> EmptyDict, keys |-> <<>>]
    ELSE IF \E i \in 1..Len(Text(arg)) : Len(Text(arg)[i]) # 2
         THEN [ok |-> FALSE, dict |-> EmptyDict, keys |-> <<>>]
         ELSE [ok |-> TRUE, dict |-> DictOf(Text(arg)), keys |-> KeysOf(Text(arg))]

\* for key in keys: del style_dict[key], up to the first absent key
RECURSIVE DelKeys(_, _)
DelKeys(d, keys) ==
    IF keys = <<>> THEN [ok |-> TRUE, dict |-> d]
    ELSE IF Head(keys) \notin DOMAIN d THEN [ok |-> FALSE, dict |-> d]
         ELSE DelKeys(DictDel(d, {Head(keys)}), Tail(keys))

\* if self._style != style_dict, both read when the comparison is made
style_needs_update(_style, style_dict) == _style # style_dict

\* style(add, remove=, replace=) on an element whose self._style is _style:
\* the exception raised (or ""), the contents of self._style afterwards,
\* whether self._style was rebound and whether self.update() was called
style_call(_style, add, remove, replace) ==
    LET alias == IsNone(replace)    \* style_dict is the very object self._style
        rm == parse_style(remove)
        del == DelKeys(IF alias THEN _style ELSE EmptyDict, rm.keys)
        ad == parse_style(add)
        d1 == DictUpdate(del.dict, ad.dict)
        rp == parse_style(replace)
        d2 == DictUpdate(d1, rp.dict)
        live(style_dict) == IF alias THEN style_dict ELSE _style
        out(raised, st, upd) ==
            [raised |-> raised, _style |-> st, rebound |-> upd, update |-> upd]
    IN IF ~rm.ok THEN out("ValueError", _style, FALSE)
       ELSE IF ~del.ok THEN out("KeyError", live(del.dict), FALSE)
       ELSE IF ~ad.ok THEN out("ValueError", live(del.dict), FALSE)
       ELSE IF ~rp.ok THEN out("ValueError", live(d1), FALSE)
       ELSE IF style_needs_update(live(d2), d2) THEN out("", d2, TRUE)
       ELSE out("", live(d2), FALSE)

----------------------------------------------------------------------------
(* props *)

\* a word whose quotation is not closed, as in label="hi
Unclosed(word) == Len(word) > 2

\* parse_props(text): a bare word is a flag, key=value is split at the first
\* '='; shlex gives up on the whole text when a quotation is left open
parse_props(arg) ==
    IF IsNone(arg) \/ Text(arg) = <<>> THEN [ok |-> TRUE, dict |-> EmptyDict, keys |-> <<>>]
    ELSE IF \E i \in 1..Len(Text(arg)) : Unclosed(Text(arg)[i])
    THEN [ok |-> FALSE, dict |-> EmptyDict, keys |-> <<>>]
    ELSE LET pairs == [i \in 1..Len(Text(arg)) |->
                          IF Len(Text(arg)[i]) = 1 THEN <<Text(arg)[i][1], BoolTrue>>
                          ELSE Text(arg)[i]]
         IN [ok |-> TRUE, dict |-> DictOf(pairs), keys |-> KeysOf(pairs)]

\* for key in keys: del self._props[key], up to the first absent key
RECURSIVE props_remove_strict(_, _)
props_remove_strict(_props, keys) ==
    IF keys = <<>> THEN [ok |-> TRUE, dict |-> _props]
    ELSE IF Head(keys) \notin DOMAIN _props THEN [ok |-> FALSE, dict |-> _props]
         ELSE props_remove_strict(DictDel(_props, {Head(keys)}), Tail(keys))

\* for key in keys: if key in self._props: del self._props[key]
RECURSIVE props_remove(_, _)
props_remove(_props, keys) ==
    IF keys = <<>> THEN [ok |-> TRUE, dict |-> _props]
    ELSE IF Head(keys) \in DOMAIN _props
         THEN props_remove(DictDel(_props, {Head(keys)}), Tail(keys))
         ELSE props_remove(_props, Tail(keys))

\* self._props.get(key) != value
prop_differs(_props, key, value) == key \notin DOMAIN _props \/ _props[key] # value

\* for key, value in add: if self._props.get(key) != value: self._props[key] = value
props_added(_props, add) ==
    DictUpdate(_props, [k \in {x \in DOMAIN add : prop_differs(_props, x, add[x])} |-> add[k]])

\* needs_update after both loops of props()
props_needs_update(_props, removed, add) ==
    \/ \E key \in DOMAIN _props : key \notin DOMAIN removed
    \/ \E key \in DOMAIN add : prop_differs(removed, key, add[key])

\* props(add, remove=) on an element whose self._props is _props: the
\* exception raised (or ""), the contents of self._props afterwards and
\* whether self.update() was called
props_call(_props, add, remove) ==
    LET rm == parse_props(remove)
        del == props_remove(_props, rm.keys)
        ad == parse_props(add)
    IN IF ~rm.ok THEN [raised |-> "ValueError", _props |-> _props, update |-> FALSE]
       ELSE IF ~del.ok THEN [raised |-> "KeyError", _props |-> del.dict, update |-> FALSE]
       ELSE IF ~ad.ok THEN [raised |-> "ValueError", _props |-> del.dict, update |-> FALSE]
       ELSE [raised |-> "", _props |-> props_added(del.dict, ad.dict),
             update |-> props_needs_update(_props, del.dict, ad.dict)]

----------------------------------------------------------------------------
(* Actions *)

Init ==
    /\ client_stack = <<1>>
    /\ loop = FALSE
    /\ next_element_id = [c \in Clients |-> 0]
    /\ elements = [c \in Clients |-> <<>>]
    /\ slot_stack = [c \in Clients |-> <<>>]
    /\ elems = <<>>
    /\ slot_heap = <<>>
    /\ with_stack = <<>>
    /\ tasks = <<>>
    /\ last = NoCall

\* a pop that takes the oldest entry
slot_stack_pop_first(stack) == Tail(stack)

\* self.client.slot_stack.pop()
slot_stack_pop(stack) == Front(stack)

\* the event loop starts: globals.loop is set
Startup ==
    /\ Idle(last)
    /\ ~loop
    /\ loop' = TRUE
    /\ last' = Call("startup", 0)
    /\ UNCHANGED <<client_stack, next_element_id, elements, slot_stack, elems,
                   slot_heap, with_stack, tasks>>

\* a registration that lists the new element in every open slot
append_child_all(heap, stack, e) ==
    [s \in DOMAIN heap |->
        IF s \in Range(stack) THEN [heap[s] EXCEPT !.children = Append(@, e)] ELSE heap[s]]

\* if self.client.slot_stack: self.client.slot_stack[-1].children.append(self)
append_child(heap, stack, e) ==
    IF stack # <<>> THEN [heap EXCEPT ![Last(stack)].children = Append(@, e)] ELSE heap

\* a constructor that leaves the client's counter alone
next_element_id_kept(counter, c) == counter

\* self.client.next_element_id += 1
next_element_id_after(counter, c) == [counter EXCEPT ![c] = @ + 1]

\* Element(tag)
Element_init(tag) ==
    /\ Idle(last)
    /\ client_stack # <<>>
    /\ Len(elems) < MaxElements
    /\ Len(slot_heap) < MaxSlots
    /\ LET c == Last(client_stack)
           id == next_element_id[c]
           e == Len(elems) + 1
           s == Len(slot_heap) + 1
           self == [client |-> c, id |-> id, tag |-> tag, _classes |-> <<>>,
                    _style |-> EmptyDict, _props |-> EmptyDict, _event_listeners |-> <<>>,
                    _text |-> "", slots |-> SlotsSet(<<>>, "default", s),
                    default_slot |-> s, visible |-> TRUE]
           heap == Append(slot_heap, Slot(e, "default"))
       IN /\ next_element_id' = next_element_id_after(next_element_id, c)
          /\ elems' = Append(elems, self)
          /\ elements' = [elements EXCEPT ![c] = DictUpdate(@, (id :> e))]
          /\ slot_heap' = append_child(heap, slot_stack[c], e)
          /\ last' = [Call("init", e) EXCEPT !.pre_stack = slot_stack[c]]
    /\ UNCHANGED <<client_stack, loop, slot_stack, with_stack, tasks>>

\* element.add_slot(name)
add_slot(e, name) ==
    /\ Idle(last)
    /\ Len(slot_heap) < MaxSlots
    /\ slot_heap' = Append(slot_heap, Slot(e, name))
    /\ elems' = [elems EXCEPT ![e].slots = SlotsSet(@, name, Len(slot_heap) + 1)]
    /\ last' = Call("add_slot", e)
    /\ UNCHANGED <<client_stack, loop, next_element_id, elements, slot_stack,
                   with_stack, tasks>>

\* a push that puts the slot under the open scopes
slot_stack_push_under(stack, slot) == <<slot>> \o stack

\* self.client.slot_stack.append(self.default_slot)
slot_stack_push(stack, slot) == Append(stack, slot)

\* `with element:` is entered
Element_enter(e) ==
    /\ Idle(last)
    /\ Len(with_stack) < MaxDepth
    /\ slot_stack' = [slot_stack EXCEPT
                         ![elems[e].client] = slot_stack_push(@, elems[e].default_slot)]
    /\ with_stack' = Append(with_stack, [elem |-> e, saved |-> slot_stack[elems[e].client]])
    /\ last' = [Call("enter", e) EXCEPT !.pre_stack = slot_stack[elems[e].client]]
    /\ UNCHANGED <<client_stack, loop, next_element_id, elements, elems, slot_heap, tasks>>

\* The innermost open `with element:` block is left.  __exit__(self, *_)
\* is handed the exception that ends the block and ignores it.  exc tells
\* whether there is one: the block is left while a constructor called in
\* it has not returned (a subclass raises after Element.__init__ ran), or
\* while the exception that ended an inner block still propagates.
Element_exit(exc) ==
    /\ IF exc THEN last.op = "init" \/ (last.op = "exit" /\ last.raised # "")
       ELSE Idle(last)
    /\ with_stack # <<>>
    /\ LET e == Last(with_stack).elem
           c == elems[e].client
       IN /\ slot_stack' = [slot_stack EXCEPT ![c] = slot_stack_pop(@)]
          /\ last' = [Call("exit", e) EXCEPT
                         !.pre_stack = slot_stack[c], !.saved = Last(with_stack).saved,
                         !.raised = IF exc THEN "Exception" ELSE ""]
    /\ with_stack' = Front(with_stack)
    /\ UNCHANGED <<client_stack, loop, next_element_id, elements, elems, slot_heap, tasks>>

\* element.update(), called directly
Element_update(e) ==
    /\ Idle(last)
    /\ Len(tasks) < MaxTasks
    /\ tasks' = update(elems, tasks, e)
    /\ last' = [Call("update", e) EXCEPT
                   !.pre = elems[e], !.sent = Len(tasks') - Len(tasks)]
    /\ UNCHANGED <<client_stack, loop, next_element_id, elements, slot_stack, elems,
                   slot_heap, with_stack>>

\* the event loop runs the oldest scheduled emit
RunTask ==
    /\ Idle(last)
    /\ tasks # <<>>
    /\ tasks' = Tail(tasks)
    /\ last' = Call("emit", 0)
    /\ UNCHANGED <<client_stack, loop, next_element_id, elements, slot_stack, elems,
                   slot_heap, with_stack>>

\* another client becomes the current client
PushClient(c) ==
    /\ Idle(last)
    /\ Len(client_stack) < MaxClientDepth
    /\ client_stack' = Append(client_stack, c)
    /\ last' = Call("push_client", 0)
    /\ UNCHANGED <<loop, next_element_id, elements, slot_stack, elems, slot_heap,
                   with_stack, tasks>>

PopClient ==
    /\ Idle(last)
    /\ Len(client_stack) > 1
    /\ client_stack' = Front(client_stack)
    /\ last' = Call("pop_client", 0)
    /\ UNCHANGED <<loop, next_element_id, elements, slot_stack, elems, slot_heap,
                   with_stack, tasks>>

\* element.on_visibility_change(visible)
on_visibility_change(e, visible) ==
    /\ Idle(last)
    /\ Len(tasks) < MaxTasks
    /\ LET els == [elems EXCEPT ![e]._classes = visibility_classes(@, visible)]
       IN /\ elems' = els
          /\ tasks' = IF visibility_needs_update(elems[e]._classes, visible)
                      THEN update(els, Sync(tasks, els, e), e)
                      ELSE tasks
    /\ last' = [Call("on_visibility_change", e) EXCEPT
                   !.visible = visible, !.pre = elems[e], !.sent = Len(tasks') - Len(tasks)]
    /\ UNCHANGED <<client_stack, loop, next_element_id, elements, slot_stack,
                   slot_heap, with_stack>>

\* element.classes(add, remove=remove, replace=replace)
classes(e, add, remove, replace) ==
    /\ Idle(last)
    /\ Len(tasks) < MaxTasks
    /\ LET new == new_classes(elems[e]._classes, add, remove, replace)
           els == [elems EXCEPT ![e]._classes = new]
       IN IF classes_needs_update(elems[e]._classes, new)
          THEN /\ elems' = els
               /\ tasks' = update(els, RebindClasses(tasks, elems, e), e)
          ELSE UNCHANGED <<elems, tasks>>
    /\ last' = [Call("classes", e) EXCEPT
                   !.add = add, !.remove = remove, !.replace = replace,
                   !.pre = elems[e], !.sent = Len(tasks') - Len(tasks)]
    /\ UNCHANGED <<client_stack, loop, next_element_id, elements, slot_stack,
                   slot_heap, with_stack>>

\* element.style(add, remove=remove, replace=replace)
style(e, add, remove, replace) ==
    /\ Idle(last)
    /\ Len(tasks) < MaxTasks
    /\ LET r == style_call(elems[e]._style, add, remove, replace)
           els == [elems EXCEPT ![e]._style = r._style]
       IN /\ elems' = els
          /\ tasks' = IF r.update THEN update(els, RebindStyle(tasks, elems, e), e)
                      ELSE IF IsNone(replace) THEN Sync(tasks, els, e)
                      ELSE tasks
          /\ last' = [Call("style", e) EXCEPT
                         !.add = add, !.remove = remove, !.replace = replace,
                         !.pre = elems[e], !.raised = r.raised,
                         !.sent = Len(tasks') - Len(tasks)]
    /\ UNCHANGED <<client_stack, loop, next_element_id, elements, slot_stack,
                   slot_heap, with_stack>>

\* element.props(add, remove=remove)
props(e, add, remove) ==
    /\ Idle(last)
    /\ Len(tasks) < MaxTasks
    /\ LET r == props_call(elems[e]._props, add, remove)
           els == [elems EXCEPT ![e]._props = r._props]
       IN /\ elems' = els
          /\ tasks' = IF r.update THEN update(els, Sync(tasks, els, e), e)
                      ELSE Sync(tasks, els, e)
          /\ last' = [Call("props", e) EXCEPT
                         !.add = add, !.remove = remove, !.pre = elems[e],
                         !.raised = r.raised, !.sent = Len(tasks') - Len(tasks)]
    /\ UNCHANGED <<client_stack, loop, next_element_id, elements, slot_stack,
                   slot_heap, with_stack>>

EventListener(element_id, type, args, handler) ==
    [element_id |-> element_id, type |-> type, args |-> args, handler |-> handler]

\* an on() that registers whatever it is given
registers_always(handler) == TRUE

\* `if handler:` of on()
registers(handler) == ~IsNone(handler)

\* element.on(type, handler, args)
on(e, type, handler, args) ==
    /\ Idle(last)
    /\ Len(elems[e]._event_listeners) < MaxListeners
    /\ elems' = IF registers(handler)
                THEN [elems EXCEPT ![e]._event_listeners =
                         Append(@, EventListener(elems[e].id, type, args, handler))]
                ELSE elems
    /\ last' = [Call("on", e) EXCEPT
                   !.type = type, !.handler = handler, !.args = args, !.pre = elems[e]]
    /\ UNCHANGED <<client_stack, loop, next_element_id, elements, slot_stack,
                   slot_heap, with_stack, tasks>>

\* a dispatch that does not look at the type
RECURSIVE handled_all(_, _, _)
handled_all(listeners, msg, i) ==
    IF i > Len(listeners) THEN <<>>
    ELSE <<[listener |-> i, handler |-> listeners[i].handler, msg |-> msg]>>
         \o handled_all(listeners, msg, i + 1)

\* the handler calls of handle_event(msg), from listener i on
RECURSIVE handled(_, _, _)
handled(listeners, msg, i) ==
    IF i > Len(listeners) THEN <<>>
    ELSE IF listeners[i].type = msg.type
         THEN <<[listener |-> i, handler |-> listeners[i].handler, msg |-> msg]>>
              \o handled(listeners, msg, i + 1)
         ELSE handled(listeners, msg, i + 1)

\* element.handle_event(msg); the handlers only take note of the call
handle_event(e, msg) ==
    /\ Idle(last)
    /\ last' = [Call("handle_event", e) EXCEPT
                   !.msg = msg, !.pre = elems[e],
                   !.invoked = handled(elems[e]._event_listeners, msg, 1)]
    /\ UNCHANGED <<client_stack, loop, next_element_id, elements, slot_stack, elems,
                   slot_heap, with_stack, tasks>>

\* the call returns to its caller, which may make the next call
Return ==
    /\ ~Idle(last)
    /\ last' = NoCall
    /\ UNCHANGED <<client_stack, loop, next_element_id, elements, slot_stack, elems,
                   slot_heap, with_stack, tasks>>

Refs == 1..Len(elems)

\* the messages the client sends for an element's events
Msgs == {[type |-> t] : t \in EventTypes}

NextTree ==
    \/ Startup
    \/ \E tag \in Tags : Element_init(tag)
    \/ Idle(last) /\ \E e \in Refs, name \in SlotNames : add_slot(e, name)
    \/ Idle(last) /\ \E e \in Refs : Element_enter(e)
    \/ Element_exit(FALSE)
    \/ Idle(last) /\ tasks = <<>> /\ \E e \in Refs : Element_update(e)
    \/ Idle(last) /\ tasks = <<>> /\
          \E e \in Refs, visible \in BOOLEAN : on_visibility_change(e, visible)
    \/ RunTask
    \/ Return

SpecTree == Init /\ [][NextTree]_vars

\* Construction and scopes over several clients, with blocks left on an
\* exception as well; a client becomes current while it is not on the
\* client stack already.
NextForest ==
    \/ \E tag \in Tags : Element_init(tag)
    \/ Idle(last) /\ \E e \in Refs : Element_enter(e)
    \/ \E exc \in BOOLEAN : Element_exit(exc)
    \/ \E c \in Clients \ Range(client_stack) : PushClient(c)
    \/ PopClient
    \/ Return

SpecForest == Init /\ [][NextForest]_vars

\* Every kind of operation over several clients: construction, scopes,
\* visibility changes, events and updates, with one element less and one
\* scope less than the other specifications allow.
NextRegistry ==
    \/ Startup
    \/ Len(elems) < MaxElements - 1 /\ \E tag \in Tags : Element_init(tag)
    \/ Idle(last) /\ Len(with_stack) < MaxDepth - 1 /\ \E e \in Refs : Element_enter(e)
    \/ Element_exit(FALSE)
    \/ \E c \in Clients \ Range(client_stack) : PushClient(c)
    \/ PopClient
    \/ Idle(last) /\ tasks = <<>> /\
          \E e \in Refs, visible \in BOOLEAN : on_visibility_change(e, visible)
    \/ Idle(last) /\ tasks = <<>> /\ \E e \in Refs : Element_update(e)
    \/ Idle(last) /\ tasks = <<>> /\ \E e \in Refs : handle_event(e, [type |-> "click"])
    \/ RunTask
    \/ Return

SpecRegistry == Init /\ [][NextRegistry]_vars

----------------------------------------------------------------------------
(* Argument texts *)

Texts(words, n) == {None} \cup {Some(t) : t \in SeqsUpTo(words, n)}

ClassAddArgs == Texts(Tokens, MaxAddWords)
ClassRemoveArgs == Texts(RemoveTokens, MaxRemoveWords)
ClassReplaceArgs == Texts(RemoveTokens, MaxRemoveWords)

\* 'key: value' parts, and a part without ':'
StyleParts == {<<k, v>> : k \in StyleKeys, v \in StyleValues} \cup {<<"color">>}

\* only the keys of remove matter
RemoveParts == {<<k, "red">> : k \in StyleKeys} \cup {<<"color">>}

StyleAddArgs == Texts(StyleParts, MaxAddParts)
StyleRemoveArgs == Texts(RemoveParts, MaxRemoveParts)
StyleReplaceArgs == Texts(StyleParts, MaxReplaceParts)

\* bare words and key=value words
PropWords == {<<k>> : k \in PropKeys} \cup {<<k, v>> : k \in PropKeys, v \in PropStrings}

PropAddArgs == Texts(PropWords, MaxPropWords)
PropRemoveArgs == Texts({<<k>> : k \in PropKeys}, MaxPropWords)

\* The specifications of the attribute mutators follow one element, and
\* let the scheduled emit run before the next call.
NextAttr ==
    \/ Startup
    \/ elems = <<>> /\ \E tag \in Tags : Element_init(tag)
    \/ Idle(last) /\ tasks = <<>> /\ \E e \in Refs : Element_update(e)
    \/ RunTask
    \/ Return

NextClasses ==
    \/ NextAttr
    \/ Idle(last) /\ tasks = <<>> /\
          \E e \in Refs, visible \in BOOLEAN : on_visibility_change(e, visible)
    \/ Idle(last) /\ tasks = <<>> /\
          \E e \in Refs, add \in ClassAddArgs, remove \in ClassRemoveArgs,
             replace \in ClassReplaceArgs : classes(e, add, remove, replace)

SpecClasses == Init /\ [][NextClasses]_vars

NextStyle ==
    \/ NextAttr
    \/ Idle(last) /\ tasks = <<>> /\
          \E e \in Refs, add \in StyleAddArgs, remove \in StyleRemoveArgs,
             replace \in StyleReplaceArgs : style(e, add, remove, replace)

SpecStyle == Init /\ [][NextStyle]_vars

NextProps ==
    \/ NextAttr
    \/ Idle(last) /\ tasks = <<>> /\
          \E e \in Refs, add \in PropAddArgs, remove \in PropRemoveArgs :
             props(e, add, remove)

SpecProps == Init /\ [][NextProps]_vars

\* Offline construction: every mutator is called while no event loop is
\* active, each with the arguments that add, remove or replace one token,
\* declaration or word; the loop starts afterwards.
OfflineClassArgs == {None, Some(<<"a">>)}
OfflineStyleArgs == {None, Some(<< <<"color", "red">> >>)}
OfflinePropArgs == {None, Some(<< <<"dense">> >>)}

NextOffline ==
    \/ NextAttr
    \/ Idle(last) /\ ~loop /\
          \E e \in Refs, visible \in BOOLEAN : on_visibility_change(e, visible)
    \/ Idle(last) /\ ~loop /\
          \E e \in Refs, add \in OfflineClassArgs, remove \in OfflineClassArgs,
             replace \in OfflineClassArgs : classes(e, add, remove, replace)
    \/ Idle(last) /\ ~loop /\
          \E e \in Refs, add \in OfflineStyleArgs, remove \in OfflineStyleArgs,
             replace \in OfflineStyleArgs : style(e, add, remove, replace)
    \/ Idle(last) /\ ~loop /\
          \E e \in Refs, add \in OfflinePropArgs, remove \in OfflinePropArgs :
             props(e, add, remove)

SpecOffline == Init /\ [][NextOffline]_vars

\* Mutations in quick succession: the calls follow each other while the
\* emits scheduled by the earlier ones have not run yet.
NextQueue ==
    \/ Startup
    \/ elems = <<>> /\ \E tag \in Tags : Element_init(tag)
    \/ Idle(last) /\ loop /\ \E e \in Refs : Element_update(e)
    \/ Idle(last) /\ loop /\
          \E e \in Refs, visible \in BOOLEAN : on_visibility_change(e, visible)
    \/ Idle(last) /\ loop /\
          \E e \in Refs, add \in OfflineClassArgs, remove \in OfflineClassArgs,
             replace \in OfflineClassArgs : classes(e, add, remove, replace)
    \/ Idle(last) /\ loop /\
          \E e \in Refs, add \in OfflineStyleArgs, remove \in OfflineStyleArgs,
             replace \in OfflineStyleArgs : style(e, add, remove, replace)
    \/ Idle(last) /\ loop /\
          \E e \in Refs, add \in OfflinePropArgs, remove \in OfflinePropArgs :
             props(e, add, remove)
    \/ RunTask
    \/ Return

SpecQueue == Init /\ [][NextQueue]_vars

\* Listeners are registered on one element, events arrive, and the element
\* is serialized by update().
NextEvents ==
    \/ NextAttr
    \/ Idle(last) /\
          \E e \in Refs, type \in EventTypes, handler \in {None} \cup {Some(h) : h \in Handlers},
             args \in EventArgs : on(e, type, handler, args)
    \/ Idle(last) /\ \E e \in Refs, msg \in Msgs : handle_event(e, msg)

SpecEvents == Init /\ [][NextEvents]_vars

\* props texts of one word: a flag, or a word with an open quotation
FailingPropArgs == {None, Some(<< <<"dense">> >>), Some(<< <<"label", "\"", "hi">> >>)}

\* Calls of style and props that may raise: a declaration without ':', a
\* style key that is not set, a props word with an open quotation.
NextFailure ==
    \/ NextStyle
    \/ Idle(last) /\ tasks = <<>> /\
          \E e \in Refs, add \in FailingPropArgs, remove \in FailingPropArgs :
             props(e, add, remove)

SpecFailure == Init /\ [][NextFailure]_vars

----------------------------------------------------------------------------
(* Properties *)

\* the element the last call was made on, now and when the call started
Post == elems[last.elem]
Pre == last.pre

\* the slots listed in element x's slots dict
SlotsOf(x) == {elems[x].slots[i].slot : i \in 1..Len(elems[x].slots)}

\* the elements held by slot s
Held(s) == {slot_heap[s].children[i] : i \in 1..Len(slot_heap[s].children)}

\* the slots that hold element x
Holders(x) == {s \in 1..Len(slot_heap) : x \in Held(s)}

\* S and everything below it through the slots of the slots dicts
RECURSIVE Subtree(_)
Subtree(S) ==
    LET below == {x \in Refs : \E p \in S : \E s \in SlotsOf(p) : x \in Held(s)}
    IN IF below \subseteq S THEN S ELSE Subtree(S \cup below)

\* q lists exactly the ids of the elements of X, oldest first
ListsInOrder(q, X) ==
    /\ Len(q) = Cardinality(X)
    /\ {q[i] : i \in 1..Len(q)} = {elems[x].id : x \in X}
    /\ \A i, j \in 1..Len(q) : i < j => q[i] < q[j]

\* message m carries element E and its subtree, and nothing else
CarriesSubtree(m, E) ==
    /\ m.event = "update"
    /\ m.room = elems[E].client
    /\ DOMAIN m.elements = {elems[x].id : x \in Subtree({E})}
    /\ Cardinality(DOMAIN m.elements) = 1 + Cardinality(Subtree({E}) \ {E})
    /\ \A x \in Subtree({E}) :
          /\ m.elements[elems[x].id].id = elems[x].id
          /\ DOMAIN m.elements[elems[x].id].slots =
                {elems[x].slots[i].name : i \in 1..Len(elems[x].slots)}
          /\ \A i \in 1..Len(elems[x].slots) :
                ListsInOrder(m.elements[elems[x].id].slots[elems[x].slots[i].name],
                             Held(elems[x].slots[i].slot))

\* C1: with a channel active, an update of element E (called directly or by
\* a mutation that changed E) schedules one 'update' message whose elements
\* are exactly E and the elements below E through any slot, 1+N entries for
\* N descendants, each entry listing per slot name the ids of the slot's
\* children in the order they were appended.
C1_UpdatePayload ==
    /\ (last.op = "update" /\ loop) => last.sent = 1
    /\ (last.op \in {"update", "on_visibility_change"} /\ last.sent > 0) =>
          /\ last.sent = 1
          /\ CarriesSubtree(Last(tasks), last.elem)

\* an update of a parent with one child while an element outside its subtree
\* exists
C1_Witness ==
    /\ last.op = "update"
    /\ last.sent = 1
    /\ Cardinality(Subtree({last.elem})) = 2
    /\ Len(elems) = 3

\* an update of a leaf that has a parent
C1_WitnessLeaf ==
    /\ last.op = "update"
    /\ last.sent = 1
    /\ Subtree({last.elem}) = {last.elem}
    /\ Holders(last.elem) # {}

\* the open scopes of client c, outermost first
RECURSIVE Scopes(_, _)
Scopes(ws, c) ==
    IF ws = <<>> THEN <<>>
    ELSE IF elems[Last(ws).elem].client = c
         THEN Append(Scopes(Front(ws), c), Last(ws).elem)
         ELSE Scopes(Front(ws), c)

\* C5: an element created while B's scope is the innermost open scope of its
\* client becomes the last child of B's default slot and of no other slot;
\* the exit of a scope leaves the slot stack as it was before its enter, so
\* that an element created next goes to the slot that was on top then, or to
\* no slot when the stack was empty.
C5_TreeScoping ==
    /\ last.op = "init" =>
          LET c == elems[last.elem].client
              open == Scopes(with_stack, c)
          IN IF open = <<>>
             THEN Holders(last.elem) = {} /\ slot_stack[c] = <<>>
             ELSE /\ Holders(last.elem) = {elems[Last(open)].default_slot}
                  /\ Last(slot_heap[elems[Last(open)].default_slot].children) = last.elem
                  /\ Cardinality({i \in 1..Len(slot_heap[elems[Last(open)].default_slot].children) :
                        slot_heap[elems[Last(open)].default_slot].children[i] = last.elem}) = 1
                  /\ Last(slot_stack[c]) = elems[Last(open)].default_slot
    /\ last.op = "exit" => slot_stack[elems[last.elem].client] = last.saved

\* B (1) was entered, A (2) was created in it, B was left and C (3) was
\* created: A is in B's default slot and C is in no slot
C5_Witness ==
    /\ last.op = "init"
    /\ last.elem = 3
    /\ with_stack = <<>>
    /\ Holders(2) = {elems[1].default_slot}
    /\ Holders(3) = {}

\* an element created inside two nested scopes, after the inner one was left
C5_WitnessNested ==
    /\ last.op = "init"
    /\ last.elem = 3
    /\ Len(with_stack) = 1
    /\ Holders(3) = {elems[with_stack[1].elem].default_slot}
    /\ Holders(2) = Holders(3)

\* the number of updates a call must dispatch
Dispatches(changed) == IF changed THEN 1 ELSE 0

\* C2: with a channel active, a classes call dispatches exactly one update
\* when the class list after the call differs from the list before it, and
\* none when the two are equal.
C2_ClassesUpdate ==
    (last.op = "classes" /\ loop) =>
        last.sent = Dispatches(Post._classes # Pre._classes)

\* classes(add="a") on an element that already has class a, channel active
C2_Witness ==
    /\ last.op = "classes"
    /\ loop
    /\ last.add = Some(<<"a">>)
    /\ IsNone(last.remove) /\ IsNone(last.replace)
    /\ "a" \in Range(Pre._classes)
    /\ last.sent = 0

\* a classes call that changed the list and dispatched
C2_WitnessChanged ==
    /\ last.op = "classes"
    /\ loop
    /\ Post._classes # Pre._classes
    /\ last.sent = 1

\* the words of a class text, none for an absent text
Words(arg) == IF arg = None THEN <<>> ELSE arg[1]

\* the entries of q that occur at no earlier position of q
FirstOccurrences(q) ==
    LET first == SelectSeq([i \in 1..Len(q) |-> i],
                           LAMBDA i : \A j \in 1..(i - 1) : q[j] # q[i])
    IN [k \in 1..Len(first) |-> q[first[k]]]

\* the class list the algorithm of classes must produce
RefClasses(prior, add, remove, replace) ==
    LET base == IF replace = None THEN prior ELSE <<>>
        kept == SelectSeq(base, LAMBDA t : \A i \in 1..Len(Words(remove)) : Words(remove)[i] # t)
    IN FirstOccurrences(kept \o Words(add) \o Words(replace))

\* C6: the class list after classes(add, remove, replace) is the prior list
\* (the empty list if replace is given) without the tokens of remove, followed
\* by the tokens of add and of replace, each token kept at its first
\* occurrence only.
C6_ClassesReference ==
    last.op = "classes" =>
        Post._classes = RefClasses(Pre._classes, last.add, last.remove, last.replace)

\* add="c" on the list [b, a] gives [b, a, c]
C6_Witness ==
    /\ last.op = "classes"
    /\ Pre._classes = <<"b", "a">>
    /\ last.add = Some(<<"c">>)
    /\ IsNone(last.remove) /\ IsNone(last.replace)
    /\ Post._classes = <<"b", "a", "c">>

\* replace="a" alone on a list of two other classes leaves [a]
C6_WitnessReplace ==
    /\ last.op = "classes"
    /\ Len(Pre._classes) = 2
    /\ "a" \notin Range(Pre._classes)
    /\ last.replace = Some(<<"a">>)
    /\ IsNone(last.add) /\ IsNone(last.remove)
    /\ Post._classes = <<"a">>

Hidden(_classes) == \E i \in 1..Len(_classes) : _classes[i] = "hidden"

\* C9: after on_visibility_change(v) the class list holds 'hidden' exactly
\* when v is false, and at most once; with a channel active the call
\* dispatches one update when the membership of 'hidden' changed and none
\* otherwise, so a repeated identical call dispatches nothing.
C9_Visibility ==
    last.op = "on_visibility_change" =>
        /\ Hidden(Post._classes) <=> ~last.visible
        /\ Cardinality({i \in 1..Len(Post._classes) : Post._classes[i] = "hidden"}) <= 1
        /\ loop => last.sent = Dispatches(Hidden(Post._classes) # Hidden(Pre._classes))

\* on_visibility_change(false) on an element that is hidden already
C9_Witness ==
    /\ last.op = "on_visibility_change"
    /\ loop
    /\ ~last.visible
    /\ Hidden(Pre._classes)
    /\ Len(Pre._classes) > 1
    /\ last.sent = 0

\* on_visibility_change(false) hides an element and dispatches
C9_WitnessHide ==
    /\ last.op = "on_visibility_change"
    /\ loop
    /\ ~last.visible
    /\ ~Hidden(Pre._classes)
    /\ last.sent = 1

\* C3: with a channel active, a style call dispatches exactly one update if
\* the style map after the call differs from the map before it, and none if
\* the map is unchanged, with or without replace (stated for the calls that
\* return).
C3_StyleUpdate ==
    (last.op = "style" /\ loop /\ last.raised = "") =>
        last.sent = Dispatches(Post._style # Pre._style)

\* C4: with a channel active, a props call dispatches exactly one update
\* when the prop map after the call differs from the map before it, and none
\* otherwise, also when a key occurs in both remove and add.
C4_PropsUpdate ==
    (last.op = "props" /\ loop) =>
        last.sent = Dispatches(Post._props # Pre._props)

\* the parts of a style text or the words of a props text
Parts(arg) == IF arg = None THEN <<>> ELSE arg[1]

\* the keys a style or props text names
KeysNamed(arg) == {Parts(arg)[i][1] : i \in 1..Len(Parts(arg))}

\* every part of a style text is 'key: value'
WellFormed(arg) == \A i \in 1..Len(Parts(arg)) : Len(Parts(arg)[i]) = 2

\* C7: a style call with a remove argument raises a key-not-found error if
\* and only if a key named in remove is absent from the element's style map
\* when the call is made, whatever add and replace are; when every such key
\* is present the call returns, and the style map then lacks every removed
\* key that the call did not set again.
C7_StyleRemove ==
    (last.op = "style" /\ last.remove # None /\ WellFormed(last.remove)) =>
        /\ (last.raised = "KeyError") <=>
              (\E key \in KeysNamed(last.remove) : key \notin DOMAIN Pre._style)
        /\ (/\ KeysNamed(last.remove) \subseteq DOMAIN Pre._style
            /\ WellFormed(last.add) /\ WellFormed(last.replace)) =>
              /\ last.raised = ""
              /\ \A key \in KeysNamed(last.remove) :
                    key \notin KeysNamed(last.add) \cup KeysNamed(last.replace) =>
                       key \notin DOMAIN Post._style

\* the value the last word of a props text with key k gives to k
ValueNamed(arg, k) ==
    LET i == CHOOSE i \in 1..Len(Parts(arg)) :
                 /\ Parts(arg)[i][1] = k
                 /\ \A j \in (i + 1)..Len(Parts(arg)) : Parts(arg)[j][1] # k
    IN IF Len(Parts(arg)[i]) = 1 THEN BoolTrue ELSE Parts(arg)[i][2]

\* add sets no key to a value it does not have in props
AddsNothing(_props, add) ==
    \A k \in KeysNamed(add) : k \in DOMAIN _props /\ _props[k] = ValueNamed(add, k)

\* C8: props(remove=K) raises no error for an absent key: a key of K that add
\* does not set is absent afterwards, a key named neither in K nor in add
\* keeps its value, and when no key of K is present and add changes nothing
\* the prop map is unchanged and no update is dispatched.
C8_PropsRemove ==
    last.op = "props" =>
        /\ last.raised = ""
        /\ \A k \in KeysNamed(last.remove) \ KeysNamed(last.add) :
              k \notin DOMAIN Post._props
        /\ \A k \in (DOMAIN Pre._props \cup DOMAIN Post._props) \
                       (KeysNamed(last.remove) \cup KeysNamed(last.add)) :
              /\ k \in DOMAIN Pre._props
              /\ k \in DOMAIN Post._props
              /\ Post._props[k] = Pre._props[k]
        /\ (/\ KeysNamed(last.remove) \cap DOMAIN Pre._props = {}
            /\ AddsNothing(Pre._props, last.add)) =>
              /\ Post._props = Pre._props
              /\ last.sent = 0

\* props(remove="dense") on an element that has a label and no dense, with a
\* channel active
C8_Witness ==
    /\ last.op = "props"
    /\ loop
    /\ last.remove = Some(<< <<"dense">> >>)
    /\ IsNone(last.add)
    /\ DOMAIN Pre._props = {"label"}
    /\ Post._props = Pre._props
    /\ last.sent = 0

\* props(remove="dense label") with only dense present: dense is deleted
C8_WitnessPartly ==
    /\ last.op = "props"
    /\ KeysNamed(last.remove) = {"dense", "label"}
    /\ DOMAIN Pre._props = {"dense"}
    /\ Post._props = EmptyDict

\* the value the last part of a style text with key k gives to k
StyleValueNamed(arg, k) ==
    LET i == CHOOSE i \in 1..Len(Parts(arg)) :
                 /\ Parts(arg)[i][1] = k
                 /\ \A j \in (i + 1)..Len(Parts(arg)) : Parts(arg)[j][1] # k
    IN Parts(arg)[i][2]

\* the style map a returning style call must leave
RefStyle(prior, add, remove, replace) ==
    LET base == IF replace = None THEN prior ELSE <<>>
        keys == ((DOMAIN base) \ KeysNamed(remove)) \cup KeysNamed(add) \cup KeysNamed(replace)
    IN [k \in keys |->
           IF k \in KeysNamed(replace) THEN StyleValueNamed(replace, k)
           ELSE IF k \in KeysNamed(add) THEN StyleValueNamed(add, k)
           ELSE base[k]]

\* the prop map a props call must leave
RefProps(prior, add, remove) ==
    [k \in ((DOMAIN prior) \ KeysNamed(remove)) \cup KeysNamed(add) |->
        IF k \in KeysNamed(add) THEN ValueNamed(add, k) ELSE prior[k]]

Mutators == {"classes", "style", "props", "on_visibility_change"}

\* C10: without an event loop, every mutation and every direct update call
\* schedules no send and raises nothing on account of the missing channel (a
\* style call raises only the key error of its remove argument), and the
\* mutation is applied to the element all the same; an update called once
\* the loop is active serializes the state so built.
C10_Offline ==
    /\ (~loop /\ last.op \in Mutators \cup {"update"}) =>
          /\ last.sent = 0
          /\ tasks = <<>>
          /\ last.raised # "" =>
                /\ last.op = "style"
                /\ last.raised = "KeyError"
                /\ last.remove # None
                /\ KeysNamed(last.remove) # {}
                /\ \/ last.replace # None
                   \/ \E key \in KeysNamed(last.remove) : key \notin DOMAIN Pre._style
    /\ (~loop /\ last.op = "classes") =>
          Post._classes = RefClasses(Pre._classes, last.add, last.remove, last.replace)
    /\ (~loop /\ last.op = "on_visibility_change") =>
          (Hidden(Post._classes) <=> ~last.visible)
    /\ (~loop /\ last.op = "style" /\ last.raised = "") =>
          Post._style = RefStyle(Pre._style, last.add, last.remove, last.replace)
    /\ (~loop /\ last.op = "props") =>
          Post._props = RefProps(Pre._props, last.add, last.remove)
    /\ (loop /\ last.op = "update") =>
          /\ last.sent = 1
          /\ Last(tasks).elements[Post.id].class = Post._classes
          /\ Last(tasks).elements[Post.id].style = Post._style
          /\ Last(tasks).elements[Post.id].props = Post._props

\* without a loop, a style call changes the style of an element whose
\* classes and props were set without a loop as well
C10_Witness ==
    /\ ~loop
    /\ last.op = "style"
    /\ last.sent = 0
    /\ Post._style # Pre._style
    /\ Post._classes = <<"a", "hidden">>
    /\ Post._props # EmptyDict

\* the loop has started and an update serializes what was set without it
C10_WitnessLater ==
    /\ loop
    /\ last.op = "update"
    /\ last.sent = 1
    /\ Last(tasks).elements[Post.id].class = <<"a", "hidden">>
    /\ DOMAIN Last(tasks).elements[Post.id].style = {"color"}
    /\ DOMAIN Last(tasks).elements[Post.id].props = {"dense"}

\* what the scheduled emits will send, oldest first
Payloads(tsk) == [i \in 1..Len(tsk) |-> tsk[i].elements]

\* C11: a batch, once scheduled, keeps its content until the transport sends
\* it: a step either sends the oldest batch or leaves every scheduled batch
\* as it is (and may schedule one more behind them); no later call to
\* classes, style, props or on_visibility_change alters a scheduled batch.
C11_Independent ==
    [][\/ tasks # <<>> /\ Payloads(tasks') = Tail(Payloads(tasks))
       \/ SubSeq(Payloads(tasks'), 1, Len(tasks)) = Payloads(tasks)]_vars

\* C12: leaving `with E:` removes E's default slot, the last entry of the
\* slot stack of E's client, and leaves that stack as it was before the
\* matching enter; so for a block left normally and for one left on an
\* exception, also when E was entered while it was already open.
C12_ScopeStack ==
    last.op = "exit" =>
        /\ last.pre_stack = Append(slot_stack[Post.client], Post.default_slot)
        /\ slot_stack[Post.client] = last.saved

\* a block of an element that is open twice is left on an exception
C12_Witness ==
    /\ last.op = "exit"
    /\ last.raised # ""
    /\ Post.default_slot \in Range(last.saved)

\* a block is left normally, inside the block of another element
C12_WitnessNormal ==
    /\ last.op = "exit"
    /\ last.raised = ""
    /\ last.saved # <<>>
    /\ Post.default_slot \notin Range(last.saved)

\* the positions, in registration order, of the listeners of a type
OfType(listeners, type) ==
    LET Matches(i) == listeners[i].type = type
    IN SelectSeq([i \in 1..Len(listeners) |-> i], Matches)

\* classes, style, props and listeners of an element
Attributes(x) == <<x._classes, x._style, x._props, x._event_listeners>>

\* C13: handle_event(msg) calls the handler of every listener whose type is
\* msg's type, in registration order and once each, with msg itself, calls
\* no listener of another type, and leaves the element's classes, style,
\* props and listener list as they were.
C13_HandleEvent ==
    last.op = "handle_event" =>
        LET at == OfType(Pre._event_listeners, last.msg.type)
        IN /\ last.invoked =
                  [k \in 1..Len(at) |->
                      [listener |-> at[k], handler |-> Pre._event_listeners[at[k]].handler,
                       msg |-> last.msg]]
           /\ Attributes(Post) = Attributes(Pre)

\* two listeners of the event's type are called, one of another type
\* registered before them is not
C13_Witness ==
    /\ last.op = "handle_event"
    /\ Len(last.invoked) = 2
    /\ last.invoked[1].listener = 2

\* an event arrives that no listener is registered for
C13_WitnessNone ==
    /\ last.op = "handle_event"
    /\ Post._event_listeners # <<>>
    /\ last.invoked = <<>>

\* C14: on(type, handler, args) with a handler appends one listener made of
\* the type, the args, the handler and the element's id to the end of the
\* listener list; without a handler it raises nothing and leaves the
\* listener list, and with it the serialized events, unchanged.
C14_On ==
    last.op = "on" =>
        /\ last.raised = ""
        /\ IF IsNone(last.handler)
           THEN /\ Post._event_listeners = Pre._event_listeners
                /\ to_dict(elems, last.elem).events = events(Pre._event_listeners)
           ELSE Post._event_listeners =
                    Append(Pre._event_listeners,
                           [element_id |-> Post.id, type |-> last.type,
                            args |-> last.args, handler |-> last.handler])

\* on() is called without a handler on an element that has a listener
C14_Witness ==
    /\ last.op = "on"
    /\ IsNone(last.handler)
    /\ Pre._event_listeners # <<>>

\* on() is called with a handler on an element that has a listener
C14_WitnessAppended ==
    /\ last.op = "on"
    /\ ~IsNone(last.handler)
    /\ Len(Post._event_listeners) = 2

\* the argument lists of the listeners at the given positions, joined
RECURSIVE JoinedArgs(_, _)
JoinedArgs(listeners, at) ==
    IF at = <<>> THEN <<>>
    ELSE listeners[Head(at)].args \o JoinedArgs(listeners, Tail(at))

\* C15: the events of a serialized element have one entry for each type that
\* has a listener and no other; the entry lists the args of all listeners of
\* the type, joined in registration order; serializing leaves every
\* listener, its args included, as it was.
C15_Events ==
    (last.op = "update" /\ last.sent = 1) =>
        LET ev == Last(tasks).elements[Post.id].events
            ls == Pre._event_listeners
        IN /\ DOMAIN ev = {ls[i].type : i \in 1..Len(ls)}
           /\ \A t \in DOMAIN ev : ev[t] = JoinedArgs(ls, OfType(ls, t))
           /\ Post._event_listeners = ls

\* two listeners of one type, both with args, are serialized
C15_Witness ==
    /\ last.op = "update"
    /\ last.sent = 1
    /\ Len(Pre._event_listeners) = 2
    /\ Pre._event_listeners[1].type = Pre._event_listeners[2].type
    /\ Pre._event_listeners[1].args = <<"y", "z">>
    /\ Pre._event_listeners[2].args = <<"x">>

\* no entry of q occurs twice
NoDuplicates(q) == \A i, j \in 1..Len(q) : q[i] = q[j] => i = j

\* C16: after classes(add=S), calling classes(add=S) again gives the list
\* the first call gave, whatever the list before and whatever S: the second
\* call changes nothing and dispatches nothing, and the list holds no token
\* twice.
C16_AddIdempotent ==
    (last.op = "classes" /\ IsNone(last.remove) /\ IsNone(last.replace)) =>
        LET once == Post._classes
            twice == new_classes(once, last.add, None, None)
        IN /\ twice = once
           /\ ~classes_needs_update(once, twice)
           /\ NoDuplicates(once)

\* add="a b" on the list [b]: one token is new, one is there already
C16_Witness ==
    /\ last.op = "classes"
    /\ IsNone(last.remove) /\ IsNone(last.replace)
    /\ last.add = Some(<<"a", "b">>)
    /\ Pre._classes = <<"b">>
    /\ Post._classes = <<"b", "a">>

\* add="c c": the argument itself names a token twice
C16_WitnessTwice ==
    /\ last.op = "classes"
    /\ IsNone(last.remove) /\ IsNone(last.replace)
    /\ last.add = Some(<<"c", "c">>)
    /\ Post._classes = <<"c">>

\* the places (slot, position) where element x is listed as a child
Places(x) ==
    {<<s, i>> \in (1..Len(slot_heap)) \X (1..MaxElements) :
        i <= Len(slot_heap[s].children) /\ slot_heap[s].children[i] = x}

\* C17: the elements of all clients form a forest: an element is listed as a
\* child at most once over all slots; the slot that lists it belongs to an
\* element of the same client that was created before it and has a smaller
\* id; so no element is its own ancestor, and collect_ids visits an element's
\* subtree without visiting any element twice.
C17_Forest ==
    \A x \in Refs :
        /\ Cardinality(Places(x)) <= 1
        /\ \A s \in Holders(x) :
              /\ slot_heap[s].parent < x
              /\ elems[slot_heap[s].parent].client = elems[x].client
              /\ elems[slot_heap[s].parent].id < elems[x].id
        /\ NoDuplicates(collect_ids(elems, elems[x].client, elems[x].id))

\* a parent with its child in client 2 next to an element of client 1
C17_Witness ==
    /\ Len(elems) = 3
    /\ \E x, y, z \in Refs :
          /\ elems[x].client = 1
          /\ elems[y].client = 2 /\ elems[z].client = 2
          /\ Holders(z) # {}
          /\ \A s \in Holders(z) : slot_heap[s].parent = y

\* a chain of three: an element holds a child that holds a child
C17_WitnessChain ==
    \E x, y, z \in Refs :
        /\ \E s \in Holders(y) : slot_heap[s].parent = x
        /\ \E s \in Holders(z) : slot_heap[s].parent = y

\* the elements of client c
Owned(c) == {x \in Refs : elems[x].client = c}

\* the ids of a client are distinct; its id map has exactly the ids given out
\* and leads from each id to the element that carries it; its counter is
\* above every id given out
RegistryState ==
    \A c \in Clients :
        /\ \A x, y \in Owned(c) : elems[x].id = elems[y].id => x = y
        /\ DOMAIN elements[c] = {elems[x].id : x \in Owned(c)}
        /\ \A id \in DOMAIN elements[c] :
              elements[c][id] \in Owned(c) /\ elems[elements[c][id]].id = id
        /\ \A x \in Owned(c) : elems[x].id < next_element_id[c]

\* no step lowers a counter, takes an entry out of an id map or redirects
\* it, or gives an element another id or client
RegistryStep ==
    /\ \A c \in Clients :
          /\ next_element_id'[c] >= next_element_id[c]
          /\ \A id \in DOMAIN elements[c] :
                id \in DOMAIN elements'[c] /\ elements'[c][id] = elements[c][id]
    /\ \A x \in Refs :
          /\ x <= Len(elems')
          /\ elems'[x].id = elems[x].id
          /\ elems'[x].client = elems[x].client

\* C18: in every reachable state the ids of a client are distinct, the
\* client's id map holds exactly the ids given out and maps each to the
\* element carrying it, and the client's counter is greater than every id
\* given out; no operation lowers the counter, removes a map entry or
\* changes an element's id.
C18_Registry == []RegistryState /\ [][RegistryStep]_vars

\* both clients have given out the id 0, and an element has been hidden
C18_Witness ==
    /\ \A c \in Clients : 0 \in DOMAIN elements[c]
    /\ \E x \in Refs : elems[x]._classes = <<"hidden">>
    /\ last.op = "update" /\ last.sent = 1

\* C19: every element's slots dict has 'default' as its first key and no
\* key twice, and the slot that `with element:` pushes (default_slot) is the
\* slot stored under 'default'; so every child created in the element's
\* scope is listed under slots['default'] of the serialized element and is
\* part of the element's update batch.
C19_DefaultSlot ==
    \A x \in Refs :
        LET slots == elems[x].slots
        IN /\ slots[1].name = "default"
           /\ \A i, j \in 1..Len(slots) : slots[i].name = slots[j].name => i = j
           /\ slots[SlotIndex(slots, "default")].slot = elems[x].default_slot
           /\ \A y \in Held(elems[x].default_slot) :
                 /\ elems[y].id \in Range(to_dict(elems, x).slots["default"])
                 /\ elems[y].id \in Range(collect_ids(elems, elems[x].client, elems[x].id))

\* C20: a call of style or props that raises leaves the element's classes,
\* style and props as they were before the call and dispatches no update.
C20_FailureAtomic ==
    (last.op \in {"style", "props"} /\ last.raised # "") =>
        /\ <<Post._classes, Post._style, Post._props>>
               = <<Pre._classes, Pre._style, Pre._props>>
        /\ last.sent = 0

====
